---- MODULE Spec2Model ----
(***************************************************************************)
(* Model of Push (src/src/classes/Push.js) and of the Service-Worker agent *)
(* (src/unnamed/part_000): the notification registry, the permission-gated *)
(* create flow, the agent dispatch chain and the closure operations.       *)
(* Permission, Util and the four synchronous agents are collaborators      *)
(* whose code is elsewhere: Permission.has, Util.isString and the agents'  *)
(* create follow their documented contract.                                *)
(***************************************************************************)
EXTENDS Integers, Sequences, FiniteSets, TLC

(* ---------------------------------------------------------------- bounds *)
MaxCalls == 2

Calls == 1..MaxCalls

(* ------------------------------------------------------------ input sets *)
\* titles a caller may pass: a string and a number
Titles == {[kind |-> "string", val |-> "x"], [kind |-> "number", val |-> "7"]}
Tags == {"a", "b"}
Timeouts == {0, 100}
\* options a caller may pass: a tag, and with or without an autoclose timeout
Options == {[tag |-> "a", timeout |-> 0], [tag |-> "b", timeout |-> 100]}

AgentNames == {"desktop", "chrome", "firefox", "ms", "webkit"}

\* the value of an array index that does not exist / a missing map entry
Undefined == [defined |-> FALSE, src |-> 0, tag |-> ""]
\* the native record displayed for create call c
Record(c, tag) == [defined |-> TRUE, src |-> c, tag |-> tag]

EmptyHandle == [kind |-> "empty", id |-> -1]
Wrapper(id) == [kind |-> "wrapper", id |-> id]

VARIABLES
  win,            \* the host features present (what each agent's isSupported probes)
  permission,     \* the Permission Gate's state: "default", "granted", "denied"
  currentId,      \* this._currentId
  notifications,  \* this._notifications: id -> record
  calls,          \* per create call: position, inputs, future, bookkeeping
  swList,         \* Service-Worker notifications currently shown, in display order
  swListeners,    \* number of 'message' listeners attached to navigator.serviceWorker
  issued,         \* history: the ids _addNotification returned, in order
  removeCount,    \* history: id -> number of times its entry was deleted
  msClose         \* what the IE agent's argument-less close() closes

vars == <<win, permission, currentId, notifications, calls, swList, swListeners,
          issued, removeCount, msClose>>

(* ------------------------------------------------------- agents' probes *)
\* DesktopAgent, WebKitAgent, MobileFirefoxAgent, MSAgent: capability probes
\* against the window object; MobileChromeAgent: navigator.serviceWorker.
Feature(a) ==
  CASE a = "desktop" -> "Notification"
    [] a = "chrome"  -> "serviceWorker"
    [] a = "firefox" -> "mozNotification"
    [] a = "ms"      -> "msIsSiteMode"
    [] a = "webkit"  -> "webkitNotifications"

Features == {Feature(a) : a \in AgentNames}

\* the hosts the library runs in: none of the interfaces, a Service Worker
\* only, a desktop browser, mobile Chrome (Notification present, its
\* constructor may throw), legacy WebKit, Firefox mobile, IE, Firefox mobile
\* with a Service Worker, and hosts that offer several of the synchronous
\* interfaces at once
Hosts == {{}, {"serviceWorker"}, {"Notification"}, {"Notification", "serviceWorker"},
          {"webkitNotifications"}, {"mozNotification"}, {"msIsSiteMode"},
          {"mozNotification", "serviceWorker"},
          {"Notification", "webkitNotifications"},
          {"webkitNotifications", "mozNotification"},
          {"mozNotification", "msIsSiteMode"},
          {"Notification", "webkitNotifications", "mozNotification", "msIsSiteMode"}}

\* an agent's isSupported(): its interface is present in the host
isSupported(a) == Feature(a) \in win

\* Util.isString
isString(t) == t.kind = "string"

\* Permission.has()
PermissionHas == permission = "granted"

(* ------------------------------------------------------------- registry *)
\* keys of the registry in for-in order (integer keys enumerate ascending)
RECURSIVE SortedKeys(_)
SortedKeys(S) ==
  IF S = {} THEN <<>>
  ELSE LET m == CHOOSE x \in S : \A y \in S : x <= y
       IN <<m>> \o SortedKeys(S \ {m})

Keys(reg) == SortedKeys(DOMAIN reg)

\* reg with key id deleted
Delete(reg, id) == [k \in (DOMAIN reg) \ {id} |-> reg[k]]

\* reg with reg[id] = n
Put(reg, id, n) == [k \in (DOMAIN reg) \cup {id} |-> IF k = id THEN n ELSE reg[k]]

\* _addNotification without the increment of _currentId
_addNotification_noIncrement(reg, cur, n) ==
  [notifications |-> Put(reg, cur, n), currentId |-> cur, id |-> cur]

\* _addNotification: store under the current id, then increment
_addNotification(reg, cur, n) ==
  [notifications |-> Put(reg, cur, n), currentId |-> cur + 1, id |-> cur]

\* _removeNotification without the hasOwnProperty test
_removeNotification_blind(reg, id) ==
  [notifications |-> Delete(reg, id), success |-> TRUE]

\* _removeNotification: delete the entry if the key is present
_removeNotification(reg, id) ==
  IF id \in DOMAIN reg
  THEN [notifications |-> Delete(reg, id), success |-> TRUE]
  ELSE [notifications |-> reg, success |-> FALSE]

\* this._notifications[id]
Lookup(reg, id) == IF id \in DOMAIN reg THEN reg[id] ELSE Undefined

\* what MSAgent.close() can do when it is handed no record: close nothing,
\* close the notification the agent created last, or close all it created
MsCloseModes == {"none", "last", "all"}

\* the agent whose close _closeNotification calls in this host
closingAgent ==
  IF isSupported("desktop") THEN "desktop"
  ELSE IF isSupported("webkit") THEN "webkit"
  ELSE IF isSupported("ms") THEN "ms"
  ELSE "none"

\* MSAgent.close(): the calls whose notification the IE agent closes; the
\* agent is given no record, so the set does not depend on the closed id
msClosed ==
  LET made == {c \in Calls : calls[c].served = "ms"}
  IN IF msClose = "all" THEN made
     ELSE IF msClose = "last"
     THEN {c \in made : \A d \in made : calls[d].regId <= calls[c].regId}
     ELSE {}

\* _closeNotification: remove the entry, then call the close of the first
\* supported of desktop, webkit (both handed the record) and ms (handed
\* nothing); agent is the agent whose close was called, closed the set of
\* calls whose native notification that close closed.
_closeNotification(reg, id) ==
  LET notification == Lookup(reg, id) IN
  IF notification.defined
  THEN LET rm == _removeNotification(reg, id) IN
       IF closingAgent \in {"desktop", "webkit"}
       THEN [notifications |-> rm.notifications, success |-> rm.success,
             threw |-> FALSE, agent |-> closingAgent,
             closed |-> {notification.src}]
       ELSE IF closingAgent = "ms"
       THEN [notifications |-> rm.notifications, success |-> rm.success,
             threw |-> FALSE, agent |-> "ms", closed |-> msClosed]
       ELSE [notifications |-> rm.notifications, success |-> FALSE,
             threw |-> TRUE, agent |-> "none", closed |-> {}]
  ELSE [notifications |-> reg, success |-> FALSE, threw |-> FALSE,
        agent |-> "none", closed |-> {}]

\* count()
count == Cardinality(DOMAIN notifications)

Bool(b) == IF b THEN "true" ELSE "false"

(* ------------------------------------------------------------------ Init *)
IdleCall ==
  [pc |-> "idle", title |-> [kind |-> "string", val |-> "x"],
   options |-> [tag |-> "a", timeout |-> 0],
   future |-> "none", handle |-> EmptyHandle, error |-> "none",
   resolveCalls |-> 0, permChecks |-> 0, permRequests |-> 0, decision |-> "none",
   probed |-> <<>>, invoked |-> <<>>, served |-> "none", agentThrew |-> FALSE,
   payloadId |-> -1, regId |-> -1, timer |-> "none", timerRet |-> "none",
   native |-> "none",
   listening |-> FALSE]

Init ==
  /\ win \in Hosts
  /\ permission \in {"default", "granted", "denied"}
  /\ currentId = 0
  /\ notifications = << >>
  /\ calls = [c \in Calls |-> IdleCall]
  /\ swList = <<>>
  /\ swListeners = 0
  /\ issued = <<>>
  /\ removeCount = [i \in 0..(MaxCalls - 1) |-> 0]
  /\ msClose \in IF closingAgent = "ms" THEN MsCloseModes ELSE {"none"}

(* ------------------------------------------------------ shared updates *)
\* the future's resolve function: only the first settlement takes effect
Resolve(cr, value) ==
  [cr EXCEPT !.resolveCalls = @ + 1,
             !.future = IF cr.future = "pending" THEN "resolved" ELSE @,
             !.handle = IF cr.future = "pending" THEN value ELSE @]

\* the future's reject function
Reject(cr, err) ==
  [cr EXCEPT !.future = IF cr.future = "pending" THEN "rejected" ELSE @,
             !.error = IF cr.future = "pending" THEN err ELSE @]

\* history of deletions between two registry values
CountRemovals(reg, reg2) ==
  [i \in DOMAIN removeCount |->
     removeCount[i] + (IF i \in (DOMAIN reg) \ (DOMAIN reg2) THEN 1 ELSE 0)]

\* the native notifications of the calls in closed are closed by their agent
CloseNatives(cs, closed) ==
  [c \in Calls |-> IF c \in closed /\ cs[c].native = "open"
                   THEN [cs[c] EXCEPT !.native = "closed"] ELSE cs[c]]

\* the worker's list of shown notifications without the ones in closed
RECURSIVE Without(_, _)
Without(seq, closed) ==
  IF seq = <<>> THEN <<>>
  ELSE IF Head(seq) \in closed THEN Without(Tail(seq), closed)
  ELSE <<Head(seq)>> \o Without(Tail(seq), closed)

(* ------------------------------------------------------ _createCallback *)
\* _prepareNotification: the wrapper over id, and whether the autoclose
\* timer is scheduled
_prepareNotification(id, options) ==
  [wrapper |-> Wrapper(id),
   timer |-> IF options.timeout # 0 THEN "armed" ELSE "none"]

\* the create of a synchronous agent (DesktopAgent, WebKitAgent,
\* MobileFirefoxAgent, MSAgent): it displays the notification and returns
\* its record, or throws
agentCreate(throws) ==
  [threw |-> throws, record |-> ~throws, displayed |-> ~throws]

\* an agent chain in which the last supported synchronous agent wins
Dispatch_lastSupportedWins(throws) ==
  LET r == agentCreate(throws) IN
  IF isSupported("ms")
  THEN [probed |-> <<"desktop", "webkit", "firefox", "ms">>, invoked |-> <<"ms">>,
        served |-> IF r.threw THEN "none" ELSE "ms",
        record |-> r.record, sw |-> FALSE, displayed |-> r.displayed,
        error |-> IF r.threw THEN "agent_error" ELSE "none"]
  ELSE IF isSupported("firefox")
  THEN [probed |-> <<"desktop", "webkit", "firefox">>, invoked |-> <<"firefox">>,
        served |-> IF r.threw THEN "none" ELSE "firefox",
        record |-> FALSE, sw |-> FALSE, displayed |-> r.displayed,
        error |-> IF r.threw THEN "agent_error" ELSE "none"]
  ELSE IF isSupported("webkit")
  THEN [probed |-> <<"desktop", "webkit">>, invoked |-> <<"webkit">>,
        served |-> IF r.threw THEN "none" ELSE "webkit",
        record |-> r.record, sw |-> FALSE, displayed |-> r.displayed,
        error |-> IF r.threw THEN "agent_error" ELSE "none"]
  ELSE IF isSupported("desktop")
  THEN IF ~r.threw
       THEN [probed |-> <<"desktop">>, invoked |-> <<"desktop">>, served |-> "desktop",
             record |-> r.record, sw |-> FALSE, displayed |-> r.displayed,
             error |-> "none"]
       ELSE IF isSupported("chrome")
       THEN [probed |-> <<"desktop", "chrome">>, invoked |-> <<"desktop", "chrome">>,
             served |-> "chrome", record |-> FALSE, sw |-> TRUE, displayed |-> FALSE,
             error |-> "none"]
       ELSE [probed |-> <<"desktop", "chrome">>, invoked |-> <<"desktop">>,
             served |-> "none", record |-> FALSE, sw |-> FALSE, displayed |-> FALSE,
             error |-> "none"]
  ELSE [probed |-> <<"desktop", "webkit", "firefox", "ms">>, invoked |-> <<>>,
        served |-> "none", record |-> FALSE, sw |-> FALSE, displayed |-> FALSE,
        error |-> "unknown_interface"]

\* the agent chain of _createCallback; throws: the invoked synchronous
\* agent's create throws.  The Firefox branch drops what create returns.
Dispatch(throws) ==
  LET r == agentCreate(throws) IN
  IF isSupported("desktop")
  THEN IF ~r.threw
       THEN [probed |-> <<"desktop">>, invoked |-> <<"desktop">>, served |-> "desktop",
             record |-> r.record, sw |-> FALSE, displayed |-> r.displayed,
             error |-> "none"]
       ELSE IF isSupported("chrome")
       THEN [probed |-> <<"desktop", "chrome">>, invoked |-> <<"desktop", "chrome">>,
             served |-> "chrome", record |-> FALSE, sw |-> TRUE, displayed |-> FALSE,
             error |-> "none"]
       ELSE [probed |-> <<"desktop", "chrome">>, invoked |-> <<"desktop">>,
             served |-> "none", record |-> FALSE, sw |-> FALSE, displayed |-> FALSE,
             error |-> "none"]
  ELSE IF isSupported("webkit")
  THEN [probed |-> <<"desktop", "webkit">>, invoked |-> <<"webkit">>,
        served |-> IF r.threw THEN "none" ELSE "webkit",
        record |-> r.record, sw |-> FALSE, displayed |-> r.displayed,
        error |-> IF r.threw THEN "agent_error" ELSE "none"]
  ELSE IF isSupported("firefox")
  THEN [probed |-> <<"desktop", "webkit", "firefox">>, invoked |-> <<"firefox">>,
        served |-> IF r.threw THEN "none" ELSE "firefox",
        record |-> FALSE, sw |-> FALSE, displayed |-> r.displayed,
        error |-> IF r.threw THEN "agent_error" ELSE "none"]
  ELSE IF isSupported("ms")
  THEN [probed |-> <<"desktop", "webkit", "firefox", "ms">>, invoked |-> <<"ms">>,
        served |-> IF r.threw THEN "none" ELSE "ms",
        record |-> r.record, sw |-> FALSE, displayed |-> r.displayed,
        error |-> IF r.threw THEN "agent_error" ELSE "none"]
  ELSE [probed |-> <<"desktop", "webkit", "firefox", "ms">>, invoked |-> <<>>,
        served |-> "none", record |-> FALSE, sw |-> FALSE, displayed |-> FALSE,
        error |-> "unknown_interface"]

\* _createCallback run for call c whose record so far is cr, inside the
\* try/catch of create's promise callback
_createCallback(c, cr, throws) ==
  LET d == Dispatch(throws)
      base == [cr EXCEPT !.probed = d.probed, !.invoked = d.invoked,
                         !.served = d.served,
                         !.agentThrew = throws /\ d.invoked # <<>>]
  IN
  IF d.error # "none"
  THEN /\ calls' = [calls EXCEPT ![c] = [Reject(base, d.error) EXCEPT !.pc = "done"]]
       /\ UNCHANGED <<currentId, notifications, issued>>
  ELSE IF d.record
  THEN LET add == _addNotification(notifications, currentId, Record(c, cr.options.tag))
           prep == _prepareNotification(add.id, cr.options)
           reg == [base EXCEPT !.pc = "done", !.regId = add.id, !.timer = prep.timer,
                               !.native = "open", !.listening = TRUE]
       IN /\ calls' = [calls EXCEPT ![c] = Resolve(Resolve(reg, prep.wrapper), EmptyHandle)]
          /\ notifications' = add.notifications
          /\ currentId' = add.currentId
          /\ issued' = Append(issued, add.id)
  ELSE IF d.sw
  THEN /\ calls' = [calls EXCEPT ![c] =
                      Resolve([base EXCEPT !.pc = "swReady", !.payloadId = currentId],
                              EmptyHandle)]
       /\ UNCHANGED <<currentId, notifications, issued>>
  ELSE /\ calls' = [calls EXCEPT ![c] =
                      Resolve([base EXCEPT !.pc = "done",
                                           !.native = IF d.displayed THEN "open" ELSE @],
                              EmptyHandle)]
       /\ UNCHANGED <<currentId, notifications, issued>>

(* ---------------------------------------------------------------- create *)
\* a title test that lets every title through
invalidTitle_never(title) == title.kind \notin {"string", "number"}

\* create's guard: the title is not a string
invalidTitle(title) == ~isString(title)

\* a permission test that never asks
requestNeeded_never == permission \notin {"default", "granted", "denied"}

\* create's branch: permission is not granted yet and has to be requested
requestNeeded == ~PermissionHas

\* a denial callback that forgets to fail the future
onDenied_silent(cr) == [cr EXCEPT !.error = "permission_declined"]

\* the onDenied callback create hands to Permission.request
onDenied(cr) == Reject(cr, "permission_declined")

\* create(title, options): the synchronous part
Create(c, title, options, throws) ==
  /\ calls[c].pc = "idle"
  /\ \A b \in Calls : b < c => calls[b].pc # "idle"
  /\ UNCHANGED <<win, msClose, permission, swList, swListeners, removeCount>>
  /\ LET cr == [calls[c] EXCEPT !.title = title, !.options = options] IN
     IF invalidTitle(title)
     THEN /\ calls' = [calls EXCEPT ![c] =
                         [calls[c] EXCEPT !.title = title, !.pc = "done",
                                          !.future = "threw",
                                          !.error = "invalid_title"]]
          /\ UNCHANGED <<currentId, notifications, issued>>
     ELSE IF requestNeeded
     THEN /\ calls' = [calls EXCEPT ![c] =
                         [cr EXCEPT !.pc = "permWait", !.future = "pending",
                                    !.permChecks = @ + 1, !.permRequests = @ + 1]]
          /\ UNCHANGED <<currentId, notifications, issued>>
     ELSE _createCallback(c, [cr EXCEPT !.future = "pending", !.permChecks = @ + 1],
                          throws)

\* Permission.request's onGranted callback fires for call c (the prompts are
\* answered in the order they were requested)
PermissionGranted(c, throws) ==
  /\ calls[c].pc = "permWait"
  /\ \A b \in Calls : b < c => calls[b].pc # "permWait"
  /\ permission # "denied"
  /\ permission' = "granted"
  /\ UNCHANGED <<win, msClose, swList, swListeners, removeCount>>
  /\ _createCallback(c, [calls[c] EXCEPT !.decision = "granted"], throws)

\* Permission.request's onDenied callback fires for call c
PermissionDenied(c) ==
  /\ calls[c].pc = "permWait"
  /\ \A b \in Calls : b < c => calls[b].pc # "permWait"
  /\ permission # "granted"
  /\ permission' = "denied"
  /\ calls' = [calls EXCEPT ![c] =
                 [onDenied([@ EXCEPT !.decision = "denied"]) EXCEPT !.pc = "done"]]
  /\ UNCHANGED <<win, msClose, currentId, notifications, swList, swListeners, issued, removeCount>>

(* ------------------------------------------- Service-Worker agent create *)
\* navigator.serviceWorker.ready settles for call c: on success the payload
\* is assembled and showNotification is called, on failure the error is
\* thrown inside the promise chain
SwReady(c, ok) ==
  /\ calls[c].pc = "swReady"
  /\ calls' = [calls EXCEPT ![c].pc = IF ok THEN "swShow" ELSE "done"]
  /\ UNCHANGED <<win, msClose, permission, currentId, notifications, swList, swListeners,
                 issued, removeCount>>

\* registration.showNotification settles for call c: on success the
\* notification is shown and getNotifications is asked for
SwShown(c, ok) ==
  /\ calls[c].pc = "swShow"
  /\ calls' = [calls EXCEPT ![c].pc = IF ok THEN "swList" ELSE "done",
                            ![c].native = IF ok THEN "open" ELSE @]
  /\ swList' = IF ok THEN Append(swList, c) ELSE swList
  /\ UNCHANGED <<win, msClose, permission, currentId, notifications, swListeners,
                 issued, removeCount>>

\* notifications[notifications.length - 1] of the worker's list
LastOf(list) ==
  IF Len(list) = 0 THEN Undefined
  ELSE Record(list[Len(list)], calls[list[Len(list)]].options.tag)

\* getNotifications settles for call c: the callback _createCallback gave
\* the agent runs with the list of shown notifications
SwCallback(c) ==
  /\ calls[c].pc = "swList"
  /\ LET add == _addNotification(notifications, currentId, LastOf(swList))
         prep == _prepareNotification(add.id, calls[c].options)
     IN /\ notifications' = add.notifications
        /\ currentId' = add.currentId
        /\ issued' = Append(issued, add.id)
        /\ calls' = [calls EXCEPT ![c] =
                       Resolve([@ EXCEPT !.pc = "done", !.regId = add.id,
                                         !.timer = prep.timer],
                               prep.wrapper)]
  /\ swListeners' = swListeners + 1
  /\ UNCHANGED <<win, msClose, permission, swList, removeCount>>

\* the 'message' listener of the Service-Worker callback
onMessage(reg, data) ==
  IF data.action = "close" /\ data.id \in Int
  THEN _removeNotification(reg, data.id)
  ELSE [notifications |-> reg, success |-> FALSE]

\* the worker posts a message about call c's notification to the page: the
\* user dismissed it (action close) or clicked it
WorkerMessage(c, action) ==
  /\ calls[c].served = "chrome"
  /\ calls[c].native = "open"
  /\ LET data == [action |-> action, id |-> calls[c].payloadId]
         r == IF swListeners > 0 THEN onMessage(notifications, data)
              ELSE [notifications |-> notifications, success |-> FALSE]
         closed == IF action = "close" THEN {c} ELSE {}
     IN /\ notifications' = r.notifications
        /\ removeCount' = CountRemovals(notifications, r.notifications)
        /\ calls' = CloseNatives(calls, closed)
        /\ swList' = Without(swList, closed)
  /\ UNCHANGED <<win, msClose, permission, currentId, swListeners, issued>>

(* -------------------------------------------------------------- closures *)
\* the state after a closure whose outcome is r
Closes(cs, r) ==
  /\ notifications' = r.notifications
  /\ removeCount' = CountRemovals(notifications, r.notifications)
  /\ calls' = CloseNatives(cs, r.closed)
  /\ swList' = Without(swList, r.closed)
  /\ UNCHANGED <<win, msClose, permission, currentId, swListeners, issued>>

\* the caller calls close() on the handle its future resolved with
HandleClose(c) ==
  /\ calls[c].future = "resolved"
  /\ calls[c].handle.kind = "wrapper"
  /\ LET id == calls[c].handle.id
         r == _closeNotification(notifications, id)
     IN /\ Closes(calls, r)

\* the autoclose timer of call c's wrapper fires: wrapper.close(); what
\* _closeNotification returned is kept in timerRet
TimerFire(c) ==
  /\ calls[c].timer = "armed"
  /\ LET id == calls[c].regId
         r == _closeNotification(notifications, id)
     IN /\ Closes([calls EXCEPT ![c].timer = "fired",
                                ![c].timerRet = Bool(r.success)], r)

\* onClose: the native 'close' or 'cancel' event of call c's record
onClose(reg, id) == _removeNotification(reg, id)

NativeClose(c) ==
  /\ calls[c].listening
  /\ LET id == calls[c].regId
         rm == onClose(notifications, id)
         r == [notifications |-> rm.notifications, closed |-> {c}]
     IN /\ Closes(calls, r)

\* close(tag)'s loop over the remaining keys
RECURSIVE closeLoop(_, _, _)
closeLoop(reg, keys, tag) ==
  IF keys = <<>>
  THEN [notifications |-> reg, ret |-> "undefined", threw |-> FALSE,
        agent |-> "none", closed |-> {}, id |-> -1]
  ELSE LET notification == reg[Head(keys)] IN
       IF ~notification.defined
       THEN [notifications |-> reg, ret |-> "none", threw |-> TRUE,
             agent |-> "none", closed |-> {}, id |-> Head(keys)]
       ELSE IF notification.tag = tag
       THEN LET r == _closeNotification(reg, Head(keys)) IN
            [notifications |-> r.notifications, ret |-> Bool(r.success),
             threw |-> r.threw, agent |-> r.agent, closed |-> r.closed,
             id |-> Head(keys)]
       ELSE closeLoop(reg, Tail(keys), tag)

close(tag) == closeLoop(notifications, Keys(notifications), tag)

CloseTag(tag) ==
  /\ LET r == close(tag)
     IN /\ Closes(calls, r)

\* clear()'s loop over the remaining keys: success && _closeNotification(key)
\* agents: the agents whose close has been called so far, in order
RECURSIVE clearLoop(_, _, _, _, _)
clearLoop(reg, keys, success, closed, agents) ==
  IF keys = <<>>
  THEN [notifications |-> reg, ret |-> Bool(success), threw |-> FALSE,
        closed |-> closed, agents |-> agents]
  ELSE IF ~success
  THEN clearLoop(reg, Tail(keys), FALSE, closed, agents)
  ELSE LET r == _closeNotification(reg, Head(keys)) IN
       IF r.threw
       THEN [notifications |-> r.notifications, ret |-> "none", threw |-> TRUE,
             closed |-> closed, agents |-> agents]
       ELSE clearLoop(r.notifications, Tail(keys), r.success, closed \cup r.closed,
                      IF r.agent = "none" THEN agents ELSE Append(agents, r.agent))

clear == clearLoop(notifications, Keys(notifications), TRUE, {}, <<>>)

Clear ==
  /\ LET r == clear
     IN /\ Closes(calls, r)

(* ------------------------------------------------------------------ Next *)
Next ==
  \/ \E c \in Calls, title \in Titles, options \in Options, throws \in BOOLEAN :
       Create(c, title, options, throws)
  \/ \E c \in Calls, throws \in BOOLEAN : PermissionGranted(c, throws)
  \/ \E c \in Calls : PermissionDenied(c)
  \/ \E c \in Calls, ok \in BOOLEAN : SwReady(c, ok)
  \/ \E c \in Calls, ok \in BOOLEAN : SwShown(c, ok)
  \/ \E c \in Calls : SwCallback(c)
  \/ \E c \in Calls, action \in {"close", "click"} : WorkerMessage(c, action)
  \/ \E c \in Calls : HandleClose(c)
  \/ \E c \in Calls : TimerFire(c)
  \/ \E c \in Calls : NativeClose(c)
  \/ \E tag \in Tags : CloseTag(tag)
  \/ Clear

Spec == Init /\ [][Next]_vars

(* ================================================================ claims *)
Range(seq) == {seq[i] : i \in 1..Len(seq)}

\* C1: ids are strictly increasing and never reused: _currentId never
\* decreases, every id handed out by _addNotification is greater than every
\* id handed out before it (the first is 0), and an id whose entry was
\* removed, or that was handed out before, is never assigned again.
C1_IdsIncreasing ==
  [][ /\ currentId' >= currentId
      /\ \A i, j \in 1..Len(issued') : i < j => issued'[i] < issued'[j]
      /\ (Len(issued') > 0 => issued'[1] = 0)
      /\ \A id \in (DOMAIN notifications') \ (DOMAIN notifications) :
           /\ id \notin Range(issued)
           /\ removeCount[id] = 0
           /\ id = issued'[Len(issued')]
           /\ currentId' > id ]_vars

\* an id was removed and a greater id was handed out afterwards and is
\* registered
C1_Witness ==
  /\ Len(issued) >= 2
  /\ \E id \in DOMAIN removeCount :
       /\ removeCount[id] = 1
       /\ id < issued[Len(issued)]
       /\ issued[Len(issued)] \in DOMAIN notifications

\* the calls whose agent displayed a notification, and those of them whose
\* notification has been closed
Created == {c \in Calls : calls[c].native # "none"}
Closed == {c \in Calls : calls[c].native = "closed"}
Quiescent == \A c \in Calls : calls[c].pc \in {"idle", "done"}

\* C2 (as claimed): once no create is in flight, count() equals the number
\* of notifications created minus the number of them closed, whichever agent
\* served the creation and whatever closed them.
C2_CountIsCreatedMinusClosed ==
  Quiescent => count = Cardinality(Created) - Cardinality(Closed)

\* the calls that found no permission and asked the Permission Gate
Asked(c) == calls[c].pc # "idle" /\ calls[c].title.kind = "string"
            /\ calls[c].decision # "none"

\* _createCallback throws for call c: no agent of the chain is supported, or
\* a create other than the desktop agent's threw
CallbackThrew(c) ==
  /\ "Notification" \notin win
  /\ \/ win \cap {"webkitNotifications", "mozNotification", "msIsSiteMode"} = {}
     \/ calls[c].agentThrew

\* C3 (as claimed): a create with a string title and no permission issues
\* exactly one permission request, and its future fails iff the request is
\* denied.
C3_FailsIffDenied ==
  \A c \in Calls :
    /\ (calls[c].pc = "permWait" \/ Asked(c)) => calls[c].permRequests = 1
    /\ (Asked(c) /\ calls[c].pc = "done") =>
         (calls[c].future = "rejected" <=> calls[c].decision = "denied")

\* C3 (amended): a create with a string title and no permission issues
\* exactly one permission request; its future fails with the
\* permission-declined error iff the request is denied, and after a grant it
\* fails iff _createCallback throws (no agent of the chain supported, or a
\* non-desktop agent's create throws).
C3_FailsIffDeniedOrCallbackThrows ==
  \A c \in Calls :
    /\ (calls[c].pc = "permWait" \/ Asked(c)) => calls[c].permRequests = 1
    /\ (calls[c].pc = "permWait") => calls[c].future = "pending"
    /\ (Asked(c) /\ calls[c].pc # "permWait") =>
         /\ (calls[c].error = "permission_declined" <=> calls[c].decision = "denied")
         /\ (calls[c].future = "rejected" <=>
               (calls[c].decision = "denied" \/ CallbackThrew(c)))

\* a call found no permission, asked once, was granted and resolved with the
\* wrapper of its registered notification
C3_Witness ==
  \E c \in Calls :
    /\ Asked(c) /\ calls[c].decision = "granted" /\ calls[c].permRequests = 1
    /\ calls[c].future = "resolved" /\ calls[c].handle.kind = "wrapper"
    /\ calls[c].regId \in DOMAIN notifications

\* C4: within one create call no agent is probed or invoked before the
\* permission check completed with a grant; a denied call fails with the
\* permission-declined error, never probes or invokes an agent, and neither
\* the request nor the denial changes the registry or _currentId.
C4_PermissionBeforeAgents ==
  [][ /\ \A c \in Calls :
           /\ (calls'[c].probed # <<>> \/ calls'[c].invoked # <<>>) =>
                /\ permission' = "granted"
                /\ calls'[c].permChecks = 1
                /\ calls'[c].permRequests = 1 => calls'[c].decision = "granted"
           /\ calls'[c].pc = "permWait" =>
                calls'[c].probed = <<>> /\ calls'[c].invoked = <<>>
           /\ calls'[c].decision = "denied" =>
                /\ calls'[c].future = "rejected"
                /\ calls'[c].error = "permission_declined"
                /\ calls'[c].probed = <<>> /\ calls'[c].invoked = <<>>
                /\ calls'[c].regId = -1 /\ calls'[c].native = "none"
                /\ calls'[c].served = "none"
      /\ \A c \in Calls :
           (\/ calls[c].pc = "idle" /\ calls'[c].pc = "permWait"
            \/ calls[c].pc = "permWait" /\ calls'[c].decision = "denied")
             => /\ notifications' = notifications
                /\ currentId' = currentId
                /\ issued' = issued ]_vars

\* the request of a call has been denied: its future failed with the
\* permission-declined error and nothing was registered
C4_Witness ==
  \E c \in Calls :
    /\ calls[c].decision = "denied"
    /\ calls[c].error = "permission_declined"
    /\ calls[c].future = "rejected"
    /\ calls[c].permRequests = 1
    /\ currentId = 0

\* C5: create with a title that is not a string fails at once: no
\* permission check, no permission request, no agent probed, nothing
\* asynchronous left, registry and _currentId unchanged.
C5_InvalidTitleFailsAtOnce ==
  [][ \A c \in Calls :
        (calls[c].pc = "idle" /\ calls'[c].pc # "idle" /\ calls'[c].title.kind # "string") =>
          /\ calls'[c].future = "threw"
          /\ calls'[c].error = "invalid_title"
          /\ calls'[c].pc = "done"
          /\ calls'[c].permChecks = 0
          /\ calls'[c].permRequests = 0
          /\ calls'[c].probed = <<>> /\ calls'[c].invoked = <<>>
          /\ calls'[c].timer = "none" /\ calls'[c].native = "none"
          /\ notifications' = notifications
          /\ currentId' = currentId
          /\ permission' = permission
          /\ swList' = swList ]_vars

\* a create with a number as title has failed while a notification is
\* registered
C5_Witness ==
  \E c \in Calls :
    /\ calls[c].title.kind = "number"
    /\ calls[c].future = "threw"
    /\ calls[c].permChecks = 0
    /\ count > 0

\* the least key of a non-empty set of registry keys
MinKey(S) == CHOOSE x \in S : \A y \in S : x <= y

\* C6 (as claimed): close(tag) removes at most one entry, the first in
\* registry order whose tag matches, leaves every other entry unchanged, and
\* when no entry matches it returns a false value without raising and
\* changes nothing.
C6_CloseTagFirstMatchOnly ==
  \A tag \in Tags :
    LET r == close(tag)
        matches == {k \in DOMAIN notifications :
                      notifications[k].defined /\ notifications[k].tag = tag}
    IN /\ Cardinality((DOMAIN notifications) \ (DOMAIN r.notifications)) <= 1
       /\ \A k \in DOMAIN r.notifications :
            k \in DOMAIN notifications /\ r.notifications[k] = notifications[k]
       /\ matches # {} =>
            DOMAIN r.notifications = (DOMAIN notifications) \ {MinKey(matches)}
       /\ matches = {} =>
            /\ ~r.threw
            /\ r.ret \in {"false", "undefined"}
            /\ r.notifications = notifications

\* C7 (as claimed): clear() returns true iff the closure of every registered
\* notification succeeds, and when one closure fails the closures of the
\* other registered notifications still take place.
C7_ClearClosesTheRest ==
  LET r == clear
      closable == {k \in DOMAIN notifications : notifications[k].defined}
  IN /\ (r.ret = "true" <=> closable = DOMAIN notifications)
     /\ \A k \in closable : k \notin DOMAIN r.notifications

\* the ids a closure may be asked for: every id ever handed out and one more
Ids == 0..MaxCalls

\* C8: closure is idempotent: the entry of an id is deleted at most once
\* whatever the order of handle.close, close(tag), clear, native events,
\* timeouts and worker messages; a closure of an id that is not (or no
\* longer, or never was) in the registry, by _closeNotification, by the
\* native close listener or by the worker's close message, returns false,
\* raises nothing and leaves the registry as it was.
C8_ClosureIdempotent ==
  /\ \A id \in DOMAIN removeCount : removeCount[id] <= 1
  /\ \A id \in Ids \ (DOMAIN notifications) :
       /\ _closeNotification(notifications, id) =
            [notifications |-> notifications, success |-> FALSE,
             threw |-> FALSE, agent |-> "none", closed |-> {}]
       /\ onClose(notifications, id) =
            [notifications |-> notifications, success |-> FALSE]
       /\ onMessage(notifications, [action |-> "close", id |-> id]) =
            [notifications |-> notifications, success |-> FALSE]
  /\ \A c \in Calls :
       /\ calls[c].timerRet = "true" => removeCount[calls[c].regId] = 1
       /\ (calls[c].timerRet = "false" /\ calls[c].served # "chrome") =>
            removeCount[calls[c].regId] = 1

\* the timer of a desktop notification fired after its entry had been
\* removed and got false, while another notification is registered
C8_Witness ==
  \E c \in Calls :
    /\ calls[c].served = "desktop"
    /\ calls[c].timerRet = "false"
    /\ removeCount[calls[c].regId] = 1
    /\ count > 0

\* C9 (as claimed): a create with a timeout option that displayed a
\* notification has the close() of its handle scheduled once, whichever agent
\* served it, and once the timer has fired the entry of the call is gone.
C9_TimeoutClosesOnEveryPath ==
  \A c \in Calls :
    (calls[c].options.timeout # 0 /\ calls[c].native # "none" /\ calls[c].pc = "done") =>
      /\ calls[c].timer \in {"armed", "fired"}
      /\ calls[c].timer = "fired" => calls[c].regId \notin DOMAIN notifications

\* C10 (as claimed): where the desktop agent is unsupported and the
\* Service-Worker agent supported, a create that passed the permission gate
\* is served by the Service-Worker agent, and its future is resolved only
\* once the worker's callback has run, with a wrapper whose get() is the
\* record stored from the worker's list.
C10_ServiceWorkerServes ==
  \A c \in Calls :
    (/\ "Notification" \notin win
     /\ "serviceWorker" \in win
     /\ calls[c].title.kind = "string"
     /\ calls[c].probed # <<>>) =>
       /\ calls[c].served = "chrome"
       /\ calls[c].future # "rejected"
       /\ calls[c].future = "resolved" =>
            /\ calls[c].pc = "done"
            /\ calls[c].handle = Wrapper(calls[c].regId)

\* C11 (as claimed): the resolve function of a create call's future is
\* invoked at most once while the call runs and exactly once by the time
\* the call has resolved, on the synchronous path, on the Service-Worker
\* path and when no record is produced.
C11_ResolvedOnce ==
  \A c \in Calls :
    /\ calls[c].resolveCalls <= 1
    /\ (calls[c].pc = "done" /\ calls[c].future = "resolved") =>
         calls[c].resolveCalls = 1

\* C12 (as claimed): a create call that registers a notification resolves
\* with the wrapper of that registry entry, on the synchronous and on the
\* Service-Worker path, and a call that resolved with the empty handle has
\* registered nothing.
C12_ResolvesWithWrapper ==
  \A c \in Calls :
    (calls[c].pc = "done" /\ calls[c].future = "resolved") =>
      /\ calls[c].regId >= 0 => calls[c].handle = Wrapper(calls[c].regId)
      /\ calls[c].handle = EmptyHandle => calls[c].regId = -1

\* supported(): some agent reports support
supported == \E a \in AgentNames : isSupported(a)

\* the calls that reached the agent chain of _createCallback
Dispatched(c) == calls[c].probed # <<>>

\* C13 (as claimed): a create with a string title and permission fails with
\* the unknown-interface error iff supported() is false.
C13_UnknownInterfaceIffUnsupported ==
  \A c \in Calls :
    Dispatched(c) =>
      (calls[c].error = "unknown_interface" <=> ~supported)

\* s is a prefix of t
IsPrefix(s, t) ==
  Len(s) <= Len(t) /\ \A i \in 1..Len(s) : s[i] = t[i]

\* C14: agents are evaluated in the order desktop, then (only when the
\* desktop create threw) Service-Worker, otherwise legacy WebKit,
\* Firefox-mobile, IE: an agent's create is invoked only if it is supported
\* and every agent ahead of it in that order is unsupported (for the
\* Service-Worker agent: only if the desktop create threw), and at most one
\* create succeeds per call.
C14_FixedPriorityOrder ==
  \A c \in Calls :
    LET inv == Range(calls[c].invoked)
        has(a) == Feature(a) \in win
    IN /\ \/ IsPrefix(calls[c].probed, <<"desktop", "chrome">>)
          \/ IsPrefix(calls[c].probed, <<"desktop", "webkit", "firefox", "ms">>)
       /\ inv \subseteq Range(calls[c].probed)
       /\ "desktop" \in inv => has("desktop")
       /\ "chrome" \in inv =>
            /\ has("chrome") /\ has("desktop")
            /\ calls[c].invoked = <<"desktop", "chrome">>
            /\ calls[c].agentThrew
       /\ "webkit" \in inv => has("webkit") /\ ~has("desktop")
       /\ "firefox" \in inv =>
            has("firefox") /\ ~has("desktop") /\ ~has("webkit")
       /\ "ms" \in inv =>
            has("ms") /\ ~has("desktop") /\ ~has("webkit") /\ ~has("firefox")
       /\ "chrome" \notin inv => Len(calls[c].invoked) <= 1
       /\ (inv # {} /\ "chrome" \notin inv /\ calls[c].invoked[1] # "desktop") =>
            calls[c].probed[Len(calls[c].probed)] = calls[c].invoked[1]
       /\ calls[c].served # "none" =>
            /\ calls[c].served = calls[c].invoked[Len(calls[c].invoked)]
            /\ (calls[c].agentThrew => calls[c].served = "chrome")

\* in a host that offers the legacy WebKit interface together with
\* lower-priority ones, and not the desktop one, the legacy WebKit agent
\* served a call and no agent behind it was probed or invoked
C14_Witness ==
  \E c \in Calls :
    /\ "webkitNotifications" \in win /\ "mozNotification" \in win
    /\ "Notification" \notin win
    /\ calls[c].served = "webkit"
    /\ calls[c].probed = <<"desktop", "webkit">>
    /\ calls[c].invoked = <<"webkit">>

\* C15 (as claimed): on the Service-Worker path the id in the worker payload
\* of a call is the registry id its notification is stored under.
C15_PayloadIdIsRegistryId ==
  \A c \in Calls :
    (calls[c].served = "chrome" /\ calls[c].regId >= 0) =>
      calls[c].payloadId = calls[c].regId

\* C16 (as claimed): every registry entry is the record of a notification
\* that is displayed and not closed, and every notification of a completed
\* create call that is displayed and not closed has a registry entry.
C16_RegistryMatchesDisplayed ==
  /\ \A id \in DOMAIN notifications :
       /\ notifications[id].defined
       /\ calls[notifications[id].src].native = "open"
  /\ \A c \in Calls :
       (calls[c].pc = "done" /\ calls[c].native = "open") =>
         \E id \in DOMAIN notifications :
           notifications[id].defined /\ notifications[id].src = c

\* the wrapper's get(): the registry entry under the wrapper's id, if any
get(id) == Lookup(notifications, id)

\* the calls whose caller holds a wrapper handle
Holds(c) == calls[c].future = "resolved" /\ calls[c].handle.kind = "wrapper"

\* C17: the get() of a handle a create call resolved with returns the
\* record that call registered while its entry is in the registry and
\* nothing otherwise; once the entry was removed it is never in the registry
\* again, so get() never returns the record of another create.
C17_GetOwnRecordOrNothing ==
  \A c \in Calls :
    Holds(c) =>
      LET id == calls[c].handle.id
          own == Record(c, calls[c].options.tag)
      IN /\ id = calls[c].regId
         /\ get(id) \in {own, Undefined}
         /\ id \in DOMAIN notifications => get(id) = own
         /\ removeCount[id] >= 1 => get(id) = Undefined

\* one handle returns nothing after its entry was removed while a later
\* create's record is registered, and the later handle returns its own
C17_Witness ==
  \E c, d \in Calls :
    /\ c # d /\ Holds(c) /\ Holds(d)
    /\ calls[c].handle.id < calls[d].handle.id
    /\ removeCount[calls[c].handle.id] >= 1
    /\ get(calls[c].handle.id) = Undefined
    /\ get(calls[d].handle.id) = Record(d, calls[d].options.tag)

\* the Service-Worker agent's create of call c failed: the worker did not
\* become ready or showNotification was refused
SwFailed(c) ==
  calls[c].served = "chrome" /\ calls[c].pc = "done" /\ calls[c].regId = -1

\* C18 (as claimed): a throw of the desktop agent's create never fails the
\* create future, and a failure of the create of any other agent
\* (Service-Worker, legacy WebKit, Firefox-mobile, IE) fails the create
\* future and registers nothing for the call.
C18_OnlyDesktopFailureIsSwallowed ==
  \A c \in Calls :
    /\ (calls[c].agentThrew /\ calls[c].invoked[1] = "desktop"
          /\ ~SwFailed(c)) => calls[c].future # "rejected"
    /\ (\/ SwFailed(c)
        \/ calls[c].agentThrew /\ calls[c].invoked[1] # "desktop") =>
         calls[c].future = "rejected" /\ calls[c].regId = -1

\* C19 (as claimed): clear() leaves the registry empty, whatever the
\* registry holds when it is called.
C19_ClearEmptiesRegistry ==
  /\ ~clear.threw
  /\ DOMAIN clear.notifications = {}

\* the entries an operation removed from the registry, given what it left
Removed(after) == (DOMAIN notifications) \ (DOMAIN after)

\* C20 (as claimed): with the host's agent support unchanged, a non-empty
\* registry implies that the desktop, the legacy WebKit or the IE agent is
\* supported, so _closeNotification (handle.close and the timeout), close(tag)
\* and clear() never throw, and for every entry they remove the close of an
\* agent has been called.
C20_ClosureNeverThrows ==
  /\ DOMAIN notifications # {} =>
       \E a \in {"desktop", "webkit", "ms"} : isSupported(a)
  /\ \A id \in Ids :
       LET r == _closeNotification(notifications, id)
       IN /\ ~r.threw
          /\ Removed(r.notifications) # {} => r.agent # "none"
  /\ \A tag \in Tags :
       LET r == close(tag)
       IN /\ ~r.threw
          /\ Removed(r.notifications) # {} => r.agent # "none"
  /\ LET r == clear
     IN /\ ~r.threw
        /\ Len(r.agents) = Cardinality(Removed(r.notifications))

====
